---------------------------- MODULE Spec2Model ----------------------------
(***************************************************************************)
(* A model of the elo package (src/elo/__init__.py, src/elo/config.py):    *)
(* the rating functions of class Elo and class EloWMarginOfVictory, and    *)
(* Elo.elo_history, the season-by-season, period-by-period propagation of  *)
(* ratings over a table of match records.                                  *)
(*                                                                         *)
(* Numbers.  The program computes in binary floating point.  The model     *)
(* computes in decimal fixed point: a real x is the integer x * ONE,       *)
(* products and quotients are truncated toward zero.  Ratings, expected    *)
(* scores, multipliers, a0, a1, a2, power and reversioncoef are fixed      *)
(* point; k, ptscale, hfa, base, elomean, spreadscale, scores, seasons and *)
(* periods are plain integers, as in config.py and the callers' tables.    *)
(* A value a function returns is a record [t, v]: t = "num" for the finite *)
(* number v, "inf"/"-inf"/"nan" for the IEEE values numpy produces, and    *)
(* the name of the exception for a call that raises.                       *)
(***************************************************************************)
EXTENDS Integers, Sequences, FiniteSets, TLC

VARIABLES
    cfg,            \* the rating model: self.k, self.ptscale, ... (and its class)
    scoredf,        \* elo_history: the match table (sequence of match records)
    reversioncoef,  \* elo_history: the inter-season reversion coefficient
    elomean,        \* elo_history: the long-term mean rating
    pc,             \* elo_history: where the call stands
    err,            \* elo_history: the exception that ended the call ("" if none)
    dfelo,          \* elo_history: the rating table (sequence of rating rows)
    sidx,           \* elo_history: index of the season being processed
    i,              \* elo_history: index of the period (matchup) being processed
    r0, r1, han, realizedscore, deltapts, spreadscale, \* arguments of a direct call
    call,           \* the rating function called directly ("none" before the call)
    ret             \* what that call returned

vars == << cfg, scoredf, reversioncoef, elomean, pc, err, dfelo, sidx, i,
           r0, r1, han, realizedscore, deltapts, spreadscale, call, ret >>

histvars == << scoredf, reversioncoef, elomean, pc, err, dfelo, sidx, i >>
callvars == << r0, r1, han, realizedscore, deltapts, spreadscale, call, ret >>

---------------------------------------------------------------------------
(* Bounds of the model.                                                    *)

\* largest score margin of a match
MaxMargin == 14
\* number of seasons a match table may span
NumSeasons == 3
\* largest number of games (pairs of mirror records) in a match table
MaxGames == 3

---------------------------------------------------------------------------
(* Fixed-point arithmetic.                                                 *)

ONE == 10 ^ 3

\* the largest magnitude kept; larger intermediate powers saturate here
CAP == ONE * ONE * ONE

Abs(x) == IF x < 0 THEN -x ELSE x
Max(a, b) == IF a >= b THEN a ELSE b
Min(a, b) == IF a <= b THEN a ELSE b
Sign(x) == IF x > 0 THEN 1 ELSE IF x < 0 THEN -1 ELSE 0

\* integer quotient truncated toward zero (b # 0)
DivT(a, b) == Sign(a) * Sign(b) * (Abs(a) \div Abs(b))

\* fixed-point product and quotient
MulFP(a, b) == DivT(a * b, ONE)
DivFP(a, b) == DivT(a * ONE, b)

\* product of two non-negative fixed-point numbers, saturating at CAP
MulSat(a, b) ==
    IF b > 0 /\ a > CAP \div (b \div ONE + 1) THEN CAP
    ELSE Min(CAP, (a \div ONE) * b + ((a % ONE) * b) \div ONE)

\* natural logarithm of a fixed-point x > 0: halve down to [1, 2], then
\* ln x = 2 atanh((x-1)/(x+1)) by its series
RECURSIVE LnFP(_)
LnFP(x) ==
    IF x > 2 * ONE THEN LnFP(2 * ONE) + LnFP(x \div 2)
    ELSE IF x < ONE THEN -LnFP(DivFP(ONE, x))
    ELSE LET z  == DivFP(x - ONE, x + ONE)
             z2 == MulFP(z, z)
             z3 == MulFP(z2, z)
             z5 == MulFP(z3, z2)
             z7 == MulFP(z5, z2)
         IN  2 * z + (2 * z3) \div 3 + (2 * z5) \div 5 + (2 * z7) \div 7

\* exponential of a fixed-point y: e^y = e * e^(y-1), Taylor series on [0, 1]
RECURSIVE ExpFP(_)
ExpFP(y) ==
    IF y < 0 THEN DivFP(ONE, ExpFP(-y))
    ELSE IF y > 21 * ONE THEN CAP
    ELSE IF y > ONE THEN MulSat(ExpFP(y - ONE), ExpFP(ONE))
    ELSE LET y2 == MulFP(y, y)
             y3 == MulFP(y2, y)
             y4 == MulFP(y3, y)
             y5 == MulFP(y4, y)
             y6 == MulFP(y5, y)
         IN  ONE + y + y2 \div 2 + y3 \div 6 + y4 \div 24 + y5 \div 120 + y6 \div 720

\* b ** y for fixed-point b > 0 and y
PowFP(b, y) == ExpFP(MulFP(y, LnFP(b)))

---------------------------------------------------------------------------
(* Values returned by the rating functions.                                *)

Num(v) == [t |-> "num", v |-> v]
PosInf == [t |-> "inf", v |-> 0]
NegInf == [t |-> "-inf", v |-> 0]
NaN == [t |-> "nan", v |-> 0]
Raise(e) == [t |-> e, v |-> 0]

IsNum(x) == x.t = "num"

\* x * y where x may be infinite and y is a finite fixed-point number
FMulNum(x, y) ==
    IF x.t = "num" THEN Num(MulFP(x.v, y))
    ELSE IF x.t \in {"inf", "-inf"}
         THEN IF y = 0 THEN NaN
              ELSE IF (x.t = "inf") = (y > 0) THEN PosInf ELSE NegInf
    ELSE x

\* a finite fixed-point number a plus x
FAddNum(a, x) == IF x.t = "num" THEN Num(a + x.v) ELSE x

\* numerator / den as numpy divides: a zero denominator gives an infinity
\* (warning, no exception), 0/0 gives nan
FDiv(numerator, den) ==
    IF den # 0 THEN Num(DivFP(numerator, den))
    ELSE IF numerator > 0 THEN PosInf
    ELSE IF numerator < 0 THEN NegInf
    ELSE NaN

---------------------------------------------------------------------------
(* Rating models.                                                          *)

\* Elo(k=20, ptscale=400): the constructor's defaults hfa=0, base=10
EloBase ==
    [class |-> "Elo", k |-> 20, ptscale |-> 400, hfa |-> 0, base |-> 10,
     a0 |-> 0, a1 |-> 0, a2 |-> 0, power |-> 0, movtype |-> "none"]

\* EloWMarginOfVictory(**config.NFL_538): defaults power=0.8, movtype='nfl'
NFL_538 ==
    [class |-> "EloWMarginOfVictory", k |-> 20, ptscale |-> 400, hfa |-> 65,
     base |-> 10, a0 |-> (22 * ONE) \div 10, a1 |-> ONE \div 1000,
     a2 |-> (22 * ONE) \div 10, power |-> (8 * ONE) \div 10, movtype |-> "nfl"]

\* EloWMarginOfVictory(movtype='nba', **config.NBA_538)
NBA_538 ==
    [class |-> "EloWMarginOfVictory", k |-> 20, ptscale |-> 400, hfa |-> 100,
     base |-> 10, a0 |-> 3 * ONE, a1 |-> (6 * ONE) \div 1000,
     a2 |-> (75 * ONE) \div 10, power |-> (8 * ONE) \div 10, movtype |-> "nba"]

NoHfa(c) == [c EXCEPT !.hfa = 0]

---------------------------------------------------------------------------
(* class Elo: matchup functions.                                           *)

\* a sign that takes everything but 'A' for the home side
hansign_home_default(h) == IF h = "A" THEN -1 ELSE 1

\* the nested sp.where of elo_diff: 1 for 'H', -1 for 'A', 0 for anything else
hansign(h) == IF h = "H" THEN 1 ELSE IF h = "A" THEN -1 ELSE 0

elo_diff(c, a, b, h) == (a - b) + hansign(h) * c.hfa * ONE

expected_score(c, a, b, h) ==
    LET ed == elo_diff(c, a, b, h)
    IN  DivFP(ONE, ONE + PowFP(c.base * ONE, DivT(-1 * ed, c.ptscale)))

\* spreadscale is a plain integer
point_spread(c, a, b, scale, h) ==
    LET ed == elo_diff(c, a, b, h)
    IN  IF scale # 0 THEN Num(DivT(ed, scale)) ELSE FDiv(ed, 0)

---------------------------------------------------------------------------
(* class EloWMarginOfVictory: the margin of victory multiplier.            *)

mov_nfl(c, dp, a, b, h) ==
    FMulNum(FDiv(c.a0, MulFP(elo_diff(c, a, b, h), c.a1) + c.a2),
            LnFP((Max(dp, 1) + 1) * ONE))

mov_nba(c, dp, a, b, h) ==
    LET dpabs == Abs(dp)
    IN  FDiv(PowFP(dpabs * ONE + c.a0, c.power),
             MulFP(elo_diff(c, a, b, h), c.a1) + c.a2)

margin_of_victory_multiplier(c, dp, a, b, h) ==
    IF c.movtype = "nfl" THEN mov_nfl(c, dp, a, b, h)
    ELSE IF c.movtype = "nba" THEN mov_nba(c, dp, a, b, h)
    ELSE Raise("ValueError")

---------------------------------------------------------------------------
(* update_score, of class Elo and as overridden in EloWMarginOfVictory.    *)

\* Elo.update_score: expected_score is computed, then the return statement
\* reads the name mov, which no scope defines: NameError, whatever the input
Elo_update_score(c, a, b, rs, dp, h) ==
    LET expectedscore == expected_score(c, a, b, h)
    IN  Raise("NameError")

MOV_update_score(c, a, b, rs, dp, h) ==
    LET expectedscore == expected_score(c, a, b, h)
        mov == margin_of_victory_multiplier(c, dp, a, b, h)
    IN  IF mov.t = "ValueError" THEN mov
        ELSE FAddNum(a, FMulNum(FMulNum(mov, c.k * ONE), rs - expectedscore))

\* method dispatch on the object's class
update_score(c, a, b, rs, dp, h) ==
    IF c.class = "Elo" THEN Elo_update_score(c, a, b, rs, dp, h)
    ELSE MOV_update_score(c, a, b, rs, dp, h)

---------------------------------------------------------------------------
(* Sequences as tables.                                                    *)

\* the concatenation of the first n sequences of ss
RECURSIVE ConcatTo(_, _)
ConcatTo(ss, n) == IF n = 0 THEN <<>> ELSE ConcatTo(ss, n - 1) \o ss[n]

Concat(ss) == ConcatTo(ss, Len(ss))

\* pandas' Series.unique(): the distinct values in order of first appearance
RECURSIVE uniqueTo(_, _)
uniqueTo(s, n) ==
    IF n = 0 THEN <<>>
    ELSE IF \E j \in 1..(n - 1) : s[j] = s[n] THEN uniqueTo(s, n - 1)
    ELSE Append(uniqueTo(s, n - 1), s[n])

unique(s) == uniqueTo(s, Len(s))

\* the column col of a table
Column(df, col) == [j \in 1..Len(df) |-> df[j][col]]
Values(s) == {s[j] : j \in 1..Len(s)}
SetMax(S) == CHOOSE x \in S : \A y \in S : y <= x
SetMin(S) == CHOOSE x \in S : \A y \in S : x <= y

\* the sort key of sort_values(by=[seasoncol, matchupperiodcol, idcol])
KeyLT(a, b) ==
    \/ a.season < b.season
    \/ a.season = b.season /\ a.matchup < b.matchup
    \/ a.season = b.season /\ a.matchup = b.matchup /\ a.id < b.id

\* DataFrame.sort_values on the three key columns: row j goes to the place
\* after the rows with a smaller key and the earlier rows with an equal key
sort_values(df) ==
    LET place(j) == 1 + Cardinality({ n \in 1..Len(df) :
                          \/ KeyLT(df[n], df[j])
                          \/ ~KeyLT(df[j], df[n]) /\ n < j })
    IN  [k \in 1..Len(df) |-> df[CHOOSE j \in 1..Len(df) : place(j) = k]]

\* the score_delta and wlt columns added to the sorted table
derive(row) ==
    [id |-> row.id, opp_id |-> row.opp_id, score |-> row.score,
     opp_score |-> row.opp_score, season |-> row.season,
     matchup |-> row.matchup, han |-> row.han,
     score_delta |-> row.score - row.opp_score,
     wlt |-> IF row.score > row.opp_score THEN ONE
             ELSE IF row.score < row.opp_score THEN 0 ELSE ONE \div 2]

\* the elements of a set of integers in ascending order
AscSeq(S) ==
    [k \in 1..Cardinality(S) |->
        CHOOSE x \in S : Cardinality({ y \in S : y < x }) = k - 1]

\* the group keys of scoredf.groupby(seasoncol), ascending
groupby_keys(df) == AscSeq(Values(Column(df, "season")))

\* the group of one season, rows in the table's order
group(df, season) == SelectSeq(df, LAMBDA r : r.season = season)

\* scoredfnow[matchupperiodcol].unique()
matchups_of(dfnow) == unique(Column(dfnow, "matchup"))

---------------------------------------------------------------------------
(* elo_history: the state of the call.                                     *)

seasons == groupby_keys(scoredf)
season == seasons[sidx]
scoredfnow == group(scoredf, season)
matchups == matchups_of(scoredfnow)
matchup == matchups[i]

\* the check without its upper bound
reversion_ok_no_upper(coef) == 0 <= coef

\* assert 0 <= reversioncoef <= 1
reversion_ok(coef) == 0 <= coef /\ coef <= ONE

EloRow(id, s, m, elo) == [id |-> id, season |-> s, matchup |-> m, elo |-> elo]

\* eloprev built from every competitor's last row of any earlier season
eloprev_last_known(df, s, coef, mean) ==
    LET before == SelectSeq(df, LAMBDA r : r.season < s)
        final  == { j \in 1..Len(before) :
                      \A n \in 1..Len(before) :
                          before[n].id = before[j].id => n <= j }
        rows   == SelectSeq([j \in 1..Len(before) |-> [row |-> before[j], keep |-> j \in final]],
                            LAMBDA x : x.keep)
    IN  [j \in 1..Len(rows) |->
            [rows[j].row EXCEPT !.elo = mean * ONE + MulFP(coef, @ - mean * ONE)]]

\* the rating rows of the end of the previous season, regressed to the mean
eloprev_of(df, s, coef, mean) ==
    LET before == SelectSeq(df, LAMBDA r : r.season < s)
        smax   == SetMax(Values(Column(before, "season")))
        last   == SelectSeq(before, LAMBDA r : r.season = smax)
        mmax   == SetMax(Values(Column(last, "matchup")))
        final  == SelectSeq(last, LAMBDA r : r.matchup = mmax)
    IN  [j \in 1..Len(final) |->
            [final[j] EXCEPT !.elo = mean * ONE + MulFP(coef, @ - mean * ONE)]]

\* the rows a season opens with: one per id of the season (per matching row
\* of eloprev, in the left merge), stamped with the season's first period
dfelonow_of(df, dfnow, s, coef, mean) ==
    LET ids   == unique(Column(dfnow, "id"))
        first == SetMin(Values(Column(dfnow, "matchup")))
    IN  IF df = <<>>
        THEN [j \in 1..Len(ids) |-> EloRow(ids[j], s, first, mean * ONE)]
        ELSE LET eloprev == eloprev_of(df, s, coef, mean)
             IN  Concat([j \in 1..Len(ids) |->
                    LET m == SelectSeq(eloprev, LAMBDA r : r.id = ids[j])
                    IN  IF m = <<>>
                        THEN << EloRow(ids[j], s, first, mean * ONE) >>
                        ELSE [n \in 1..Len(m) |->
                                 EloRow(ids[j], s, first, m[n].elo)]])

\* DataFrame.append: a new table, the old rows first
append(df, rows) == df \o rows

\* the initialisation with eloprev a view of the table: the regressed ratings
\* are written into the previous season's closing rows
after_season_init_view(df, dfnow, s, coef, mean) ==
    LET new == dfelonow_of(df, dfnow, s, coef, mean)
        old == IF df = <<>> THEN df
               ELSE LET smax == SetMax(Values(Column(df, "season")))
                        last == SelectSeq(df, LAMBDA r : r.season = smax)
                        mmax == SetMax(Values(Column(last, "matchup")))
                    IN  [j \in 1..Len(df) |->
                           IF df[j].season = smax /\ df[j].matchup = mmax
                           THEN [df[j] EXCEPT !.elo = mean * ONE + MulFP(coef, @ - mean * ONE)]
                           ELSE df[j]]
    IN  append(old, new)

\* the rating table after a season's initialisation: eloprev is a copy (the
\* result of boolean indexing), so writing the regressed ratings into it
\* leaves the table's rows as they were
after_season_init(df, dfnow, s, coef, mean) ==
    append(df, dfelonow_of(df, dfnow, s, coef, mean))

\* the selection without the test on the period of the earlier seasons: the
\* rows of every earlier season are read along with those of the period
thiselo_earlier(df, s, m) ==
    SelectSeq(df, LAMBDA r : r.season < s \/ (r.season = s /\ r.matchup = m))

\* thiselo: the rating rows stamped with the season and the period at hand,
\* the only rows a period's update reads r0 and r1 from
thiselo_of(df, s, m) == SelectSeq(df, LAMBDA r : r.season = s /\ r.matchup = m)

\* the same join with how='inner': rating rows without a match are dropped
merge_inner(dfweek, thiselo) ==
    Concat([j \in 1..Len(thiselo) |->
        LET e  == thiselo[j]
            ms == SelectSeq(dfweek, LAMBDA r : r.id = e.id)
        IN  [n \in 1..Len(ms) |->
                [id |-> e.id, elo |-> e.elo, played |-> TRUE,
                 opp_id |-> ms[n].opp_id, wlt |-> ms[n].wlt,
                 score_delta |-> ms[n].score_delta, han |-> ms[n].han]]])

\* dfweek.merge(thiselo, how='right'): every rating row of the period, once
\* per match record of its competitor, or once with no match (NaN columns)
merge_right(dfweek, thiselo) ==
    Concat([j \in 1..Len(thiselo) |->
        LET e  == thiselo[j]
            ms == SelectSeq(dfweek, LAMBDA r : r.id = e.id)
        IN  IF ms = <<>>
            THEN << [id |-> e.id, elo |-> e.elo, played |-> FALSE, opp_id |-> 0,
                     wlt |-> 0, score_delta |-> 0, han |-> "N"] >>
            ELSE [n \in 1..Len(ms) |->
                    [id |-> e.id, elo |-> e.elo, played |-> TRUE,
                     opp_id |-> ms[n].opp_id, wlt |-> ms[n].wlt,
                     score_delta |-> ms[n].score_delta, han |-> ms[n].han]]])

\* the same join with how='inner': a row without an opponent's rating row is
\* dropped
merge_opp_inner(dfwelo, thiselo) ==
    Concat([j \in 1..Len(dfwelo) |->
        LET w  == dfwelo[j]
            os == IF w.played
                  THEN SelectSeq(thiselo, LAMBDA r : r.id = w.opp_id)
                  ELSE <<>>
        IN  [n \in 1..Len(os) |-> w @@ [elo_opp |-> os[n].elo]]])

\* dfwelo.merge(thiselo, how='left', left_on=opp_id): the opponent's rating,
\* once per rating row the opponent has in the period; NaN when it has none
merge_opp(dfwelo, thiselo) ==
    Concat([j \in 1..Len(dfwelo) |->
        LET w  == dfwelo[j]
            os == IF w.played
                  THEN SelectSeq(thiselo, LAMBDA r : r.id = w.opp_id)
                  ELSE <<>>
        IN  IF os = <<>>
            THEN << [w EXCEPT !.played = FALSE] @@ [elo_opp |-> 0] >>
            ELSE [n \in 1..Len(os) |-> w @@ [elo_opp |-> os[n].elo]]])

\* the stamp that ignores a gap in the period numbers
next_matchup_plus_one(ms, n) == ms[n] + 1

\* the period the updated ratings are stamped with
next_matchup(ms, n) == IF n + 1 <= Len(ms) THEN ms[n + 1] ELSE ms[n] + 1

\* update_score on one joined row; a row with a NaN operand yields NaN
row_update(c, w) ==
    LET u == update_score(c, w.elo, w.elo_opp, w.wlt, w.score_delta, w.han)
    IN  IF u.t \in {"NameError", "ValueError"} \/ w.played THEN u ELSE NaN

\* the exception the call of update_score on the joined table ends with ("" if
\* it returns): raised whatever the rows are
Elo_raises(c) ==
    LET u == update_score(c, 0, 0, 0, 0, "N")
    IN  IF u.t \in {"NameError", "ValueError"} THEN u.t ELSE ""

\* .fillna(dfwelo.elo): a NaN result keeps the rating the row came with
fillna(u, elo) == IF u.t = "nan" THEN Num(elo) ELSE u

---------------------------------------------------------------------------
(* elo_history: the steps of the call.                                     *)

\* line 231: the assertion on reversioncoef, before anything else
Validate ==
    /\ pc = "start"
    /\ IF reversion_ok(reversioncoef)
       THEN pc' = "prepare" /\ err' = err
       ELSE pc' = "error" /\ err' = "AssertionError"
    /\ UNCHANGED << cfg, scoredf, reversioncoef, elomean, dfelo, sidx, i >>
    /\ UNCHANGED callvars

\* lines 233-252: sort the table, add score_delta and wlt, create the empty
\* rating table; the loop over the seasons starts (or ends at once)
Prepare ==
    /\ pc = "prepare"
    /\ scoredf' = LET df == sort_values(scoredf)
                  IN  [j \in 1..Len(df) |-> derive(df[j])]
    /\ dfelo' = <<>>
    /\ IF scoredf = <<>>
       THEN pc' = "return" /\ sidx' = sidx
       ELSE pc' = "season" /\ sidx' = 1
    /\ UNCHANGED << cfg, reversioncoef, elomean, err, i >>
    /\ UNCHANGED callvars

\* lines 253-290: the season's opening ratings are appended
SeasonInit ==
    /\ pc = "season"
    /\ \E s \in {season} : \E dfnow \in {group(scoredf, s)} :
          dfelo' = after_season_init(dfelo, dfnow, s, reversioncoef, elomean)
    /\ pc' = "period"
    /\ i' = 1
    /\ UNCHANGED << cfg, scoredf, reversioncoef, elomean, err, sidx >>
    /\ UNCHANGED callvars

\* lines 291-336: one period: join, stamp with the next period, update_score,
\* append; then the next period, the next season, or the end of the loops.
\* The values of the iteration are bound once (\E x \in {e}) and used below.
\* A rating that comes out infinite or NaN has no fixed-point value: the call
\* is then left at "nonfinite" (NoNonFinite: no table of Init or InitTwo gets
\* there, the ratings staying within a few hundred points of the mean).
PeriodUpdate ==
    /\ pc = "period"
    /\ \E s \in {season} : \E ms \in {matchups_of(group(scoredf, s))} :
       \E dfweek \in {SelectSeq(scoredf, LAMBDA r : r.season = s /\ r.matchup = ms[i])} :
       \E thiselo \in {thiselo_of(dfelo, s, ms[i])} :
       \E dfwelo \in {merge_opp(merge_right(dfweek, thiselo), thiselo)} :
       \E raised \in {Elo_raises(cfg)} :
       \E upd \in {[j \in 1..Len(dfwelo) |->
                      fillna(row_update(cfg, dfwelo[j]), dfwelo[j].elo)]} :
           IF raised # ""
           THEN /\ pc' = "error"
                /\ err' = raised
                /\ UNCHANGED << dfelo, sidx, i >>
           ELSE IF \E j \in 1..Len(upd) : ~IsNum(upd[j])
           THEN /\ pc' = "nonfinite"
                /\ UNCHANGED << err, dfelo, sidx, i >>
           ELSE /\ dfelo' = append(dfelo, [j \in 1..Len(dfwelo) |->
                                EloRow(dfwelo[j].id, s, next_matchup(ms, i), upd[j].v)])
                /\ err' = err
                /\ IF i < Len(ms)
                   THEN pc' = "period" /\ i' = i + 1 /\ sidx' = sidx
                   ELSE IF sidx < Len(seasons)
                   THEN pc' = "season" /\ i' = i /\ sidx' = sidx + 1
                   ELSE pc' = "return" /\ i' = i /\ sidx' = sidx
    /\ UNCHANGED << cfg, scoredf, reversioncoef, elomean >>
    /\ UNCHANGED callvars

\* line 338
Return ==
    /\ pc = "return"
    /\ pc' = "done"
    /\ UNCHANGED << cfg, scoredf, reversioncoef, elomean, err, dfelo, sidx, i >>
    /\ UNCHANGED callvars

NoNonFinite == pc # "nonfinite"

Next == Validate \/ Prepare \/ SeasonInit \/ PeriodUpdate \/ Return

---------------------------------------------------------------------------
(* Match tables given to elo_history.                                      *)

mirror(h) == IF h = "H" THEN "A" ELSE IF h = "A" THEN "H" ELSE h

\* the two mirror records of one game
records_of(s, m, home, away, hs, as, h) ==
    { [id |-> home, opp_id |-> away, score |-> hs, opp_score |-> as,
       season |-> s, matchup |-> m, han |-> h],
      [id |-> away, opp_id |-> home, score |-> as, opp_score |-> hs,
       season |-> s, matchup |-> m, han |-> mirror(h)] }

\* The games a season may hold.  Periods are numbered 1 and 3 (a gap);
\* competitor 1 may play twice in period 1; each competitor sits out a period
\* in some table; a home win, an away win and a tie on neutral ground.
Fixtures ==
    { [matchup |-> 1, home |-> 1, away |-> 2, hs |-> MaxMargin, as |-> 0, han |-> "H"],
      [matchup |-> 1, home |-> 1, away |-> 3, hs |-> 3, as |-> 7, han |-> "H"],
      [matchup |-> 3, home |-> 2, away |-> 3, hs |-> 7, as |-> 7, han |-> "N"] }

AllGames == { [season |-> s, fx |-> f] : s \in 1..NumSeasons, f \in Fixtures }

GameSets == { G \in SUBSET AllGames : Cardinality(G) <= MaxGames }

RecordsOf(G) ==
    UNION { records_of(g.season, g.fx.matchup, g.fx.home, g.fx.away,
                       g.fx.hs, g.fx.as, g.fx.han) : g \in G }

\* a total order on the records of a table
Rank(r) == ((r.season * 10 + r.matchup) * 10 + r.id) * 10 + r.opp_id

\* the records of a table latest first: the caller's table need not be sorted
RECURSIVE DescSeq(_)
DescSeq(S) ==
    IF S = {} THEN <<>>
    ELSE LET m == CHOOSE x \in S : \A y \in S : Rank(y) <= Rank(x)
         IN  <<m>> \o DescSeq(S \ {m})

Tables == { DescSeq(RecordsOf(G)) : G \in GameSets }

\* reversioncoef: below 0, the ends and the middle of [0, 1], above 1
Coefs == { -(ONE \div 2), 0, ONE \div 2, ONE, (3 * ONE) \div 2 }

\* one game between competitors 1 and 2 in season 1, period 1, won by `margin`
\* (by competitor 2 when negative)
SingleGame(margin, h) ==
    DescSeq(records_of(1, 1, 1, 2, Max(margin, 0), Max(-margin, 0), h))

---------------------------------------------------------------------------
(* Direct calls of the rating functions.                                   *)

CallEloDiff ==
    /\ call = "none"
    /\ call' = "elo_diff"
    /\ ret' = Num(elo_diff(cfg, r0, r1, han))
    /\ UNCHANGED << cfg, r0, r1, han, realizedscore, deltapts, spreadscale >>
    /\ UNCHANGED histvars

CallExpectedScore ==
    /\ call = "none"
    /\ call' = "expected_score"
    /\ ret' = Num(expected_score(cfg, r0, r1, han))
    /\ UNCHANGED << cfg, r0, r1, han, realizedscore, deltapts, spreadscale >>
    /\ UNCHANGED histvars

CallUpdateScore ==
    /\ call = "none"
    /\ call' = "update_score"
    /\ ret' = update_score(cfg, r0, r1, realizedscore, deltapts, han)
    /\ UNCHANGED << cfg, r0, r1, han, realizedscore, deltapts, spreadscale >>
    /\ UNCHANGED histvars

CallPointSpread ==
    /\ call = "none"
    /\ call' = "point_spread"
    /\ ret' = point_spread(cfg, r0, r1, spreadscale, han)
    /\ UNCHANGED << cfg, r0, r1, han, realizedscore, deltapts, spreadscale >>
    /\ UNCHANGED histvars

NextCall == CallEloDiff \/ CallExpectedScore \/ CallUpdateScore \/ CallPointSpread

---------------------------------------------------------------------------
(* Specifications.                                                         *)

NoCall ==
    /\ r0 = 0 /\ r1 = 0 /\ han = "N" /\ realizedscore = 0 /\ deltapts = 0
    /\ spreadscale = 1 /\ call = "idle" /\ ret = NaN

NoHistory ==
    /\ scoredf = <<>> /\ reversioncoef = 0 /\ elomean = 0 /\ pc = "idle"
    /\ err = "" /\ dfelo = <<>> /\ sidx = 0 /\ i = 0

\* elo_history on a table of up to MaxGames games
Init ==
    /\ cfg \in {EloBase, NFL_538, NBA_538}
    /\ scoredf \in Tables
    /\ reversioncoef \in Coefs
    /\ elomean = 1500
    /\ pc = "start" /\ err = "" /\ dfelo = <<>> /\ sidx = 0 /\ i = 0
    /\ NoCall

Spec == Init /\ [][Next]_vars

\* elo_history on a league of two competitors, one season, one period, no
\* home-field advantage, every margin
InitTwo ==
    /\ cfg \in {EloBase, NoHfa(NFL_538), NoHfa(NBA_538)}
    /\ scoredf \in { SingleGame(m, h) : m \in (-MaxMargin)..MaxMargin,
                                        h \in {"H", "N"} }
    /\ reversioncoef = (3 * ONE) \div 4
    /\ elomean = 1500
    /\ pc = "start" /\ err = "" /\ dfelo = <<>> /\ sidx = 0 /\ i = 0
    /\ NoCall

SpecTwo == InitTwo /\ [][Next]_vars

\* the ratings a direct call is given: level, a little apart, and so far
\* below the opponent that elo_diff * a1 + a2 is zero or negative
CallRatings == { 1500, 1600, 1300, 100, -765, -1500 }

InitCall ==
    /\ cfg \in {EloBase, NFL_538, NBA_538}
    /\ r0 \in { x * ONE : x \in CallRatings }
    /\ r1 = 1500 * ONE
    /\ han \in {"H", "A", "N", "X"}
    /\ realizedscore \in {0, ONE \div 2, ONE}
    /\ deltapts \in {-MaxMargin, -1, 0, 1, MaxMargin}
    /\ spreadscale = 25
    /\ call = "none" /\ ret = NaN
    /\ NoHistory

SpecCall == InitCall /\ [][NextCall]_vars

---------------------------------------------------------------------------
(* What the claims speak of, read off the input table and the rating table *)
(* without the engine's own helpers.                                       *)

HAN == {"H", "A", "N"}

InputSeasons == { scoredf[j].season : j \in 1..Len(scoredf) }
InputPeriods(s) ==
    { scoredf[j].matchup : j \in { n \in 1..Len(scoredf) : scoredf[n].season = s } }
FirstPeriod(s) == SetMin(InputPeriods(s))
LastPeriod(s) == SetMax(InputPeriods(s))

\* the next distinct period of season s after p, or p + 1 after the last one
NextPeriod(s, p) ==
    LET later == { q \in InputPeriods(s) : q > p }
    IN  IF later = {} THEN p + 1 ELSE SetMin(later)

\* the n-th smallest element of a set of integers
NthSmallest(S, n) == CHOOSE x \in S : Cardinality({ y \in S : y < x }) = n - 1

\* competitor c has a match record in period p of season s
Plays(c, s, p) ==
    \E j \in 1..Len(scoredf) :
        scoredf[j].id = c /\ scoredf[j].season = s /\ scoredf[j].matchup = p

\* the positions of the rating rows of competitor c stamped (s, p)
RowsAt(c, s, p) ==
    { j \in 1..Len(dfelo) :
        dfelo[j].id = c /\ dfelo[j].season = s /\ dfelo[j].matchup = p }

\* the ratings of those rows, and how often each occurs
EloAt(c, s, p) == { dfelo[j].elo : j \in RowsAt(c, s, p) }
CountAt(c, s, p, e) == Cardinality({ j \in RowsAt(c, s, p) : dfelo[j].elo = e })

Competitors == { dfelo[j].id : j \in 1..Len(dfelo) }

\* the rows a season opens with are those stamped with its first period
IsOpening(j) == dfelo[j].matchup = FirstPeriod(dfelo[j].season)

Mean == elomean * ONE

---------------------------------------------------------------------------
(* C1.  For the base model, update_score returns                           *)
(* r0 + k * 1 * (realizedscore - expected_score(r0, r1, han)) for every    *)
(* input: the multiplier is 1 and deltapts has no effect.  The code raises *)
(* NameError instead (line 158 reads mov, which is not defined).           *)
C1_BaseUpdateScore ==
    (call = "update_score" /\ cfg.class = "Elo")
        => ret = Num(r0 + cfg.k * 1 * (realizedscore - expected_score(cfg, r0, r1, han)))

---------------------------------------------------------------------------
\* the seasons of the table before season s, and the latest of them
EarlierSeasons(s) == { t \in InputSeasons : t < s }
PreviousSeason(s) == SetMax(EarlierSeasons(s))

\* the closing rows of competitor c in season t: those stamped last period + 1
ClosingRows(c, t) == RowsAt(c, t, LastPeriod(t) + 1)

\* the earlier seasons competitor c has rating rows in
SeenIn(c, s) ==
    { t \in EarlierSeasons(s) : \E j \in 1..Len(dfelo) :
                                    dfelo[j].id = c /\ dfelo[j].season = t }

(* C2, as claimed.  At every season transition a competitor that appeared  *)
(* in any earlier season, the immediately preceding one or not, opens the   *)
(* season at mean + reversioncoef * (lastRating - mean), lastRating being   *)
(* its closing rating of the latest season it appeared in; a competitor     *)
(* never seen before opens at mean.                                         *)
C2_RevertsLastKnownRating ==
    \A j \in 1..Len(dfelo) :
        IsOpening(j) =>
            LET c    == dfelo[j].id
                seen == SeenIn(c, dfelo[j].season)
            IN  IF seen = {} THEN dfelo[j].elo = Mean
                ELSE \E n \in ClosingRows(c, SetMax(seen)) :
                        dfelo[j].elo = Mean + MulFP(reversioncoef, dfelo[n].elo - Mean)

(* C2, as amended.  At every season transition a competitor with a closing  *)
(* rating in the latest earlier season of the table opens the season at     *)
(* mean + reversioncoef * (closing - mean); every other competitor, never   *)
(* seen or absent from that latest earlier season, opens at mean exactly.   *)
(* Hence with reversioncoef = 0 every opening rating is mean, and with      *)
(* reversioncoef = 1 the opening rating of a competitor of the preceding    *)
(* season is its closing rating.                                            *)
C2_RevertsPreviousSeason ==
    \A j \in 1..Len(dfelo) :
        IsOpening(j) =>
            LET c == dfelo[j].id
                s == dfelo[j].season
                closing == IF EarlierSeasons(s) = {} THEN {}
                           ELSE ClosingRows(c, PreviousSeason(s))
            IN  /\ closing = {} => dfelo[j].elo = Mean
                /\ closing # {} =>
                     \E n \in closing :
                        /\ dfelo[j].elo = Mean + MulFP(reversioncoef, dfelo[n].elo - Mean)
                        /\ reversioncoef = ONE => dfelo[j].elo = dfelo[n].elo
                /\ reversioncoef = 0 => dfelo[j].elo = Mean

\* a season opened by a competitor back after a season away, its last rating
\* off the mean, next to a competitor of the preceding season regressed
\* half way to the mean
C2_Witness ==
    /\ reversioncoef = ONE \div 2
    /\ \E j \in 1..Len(dfelo) :
         LET c == dfelo[j].id
             s == dfelo[j].season
         IN  /\ IsOpening(j)
             /\ SeenIn(c, s) # {}
             /\ PreviousSeason(s) \notin SeenIn(c, s)
             /\ \E n \in ClosingRows(c, SetMax(SeenIn(c, s))) : dfelo[n].elo # Mean
             /\ dfelo[j].elo = Mean
    /\ \E j \in 1..Len(dfelo) :
         LET c == dfelo[j].id
             s == dfelo[j].season
         IN  /\ IsOpening(j)
             /\ EarlierSeasons(s) # {}
             /\ \E n \in ClosingRows(c, PreviousSeason(s)) :
                    /\ dfelo[n].elo # Mean
                    /\ dfelo[j].elo # Mean
                    /\ dfelo[j].elo # dfelo[n].elo

---------------------------------------------------------------------------
(* C3.  For a league of two competitors with one season and one period, a  *)
(* symmetric pair of match records and hfa = 0, the ratings elo_history     *)
(* produces satisfy: winner's new rating + loser's new rating = 2 * mean,   *)
(* for every rating model and every non-zero margin.  The code breaks it    *)
(* for movtype 'nfl' (the winner's multiplier is ln(margin + 1), the        *)
(* loser's is ln 2), and the base model raises NameError (C1).              *)
C3_ZeroSum ==
    (pc = "done" /\ \E j \in 1..Len(scoredf) : scoredf[j].score_delta # 0)
        => /\ RowsAt(1, 1, 2) # {} /\ RowsAt(2, 1, 2) # {}
           /\ \A a \in EloAt(1, 1, 2), b \in EloAt(2, 1, 2) : a + b = 2 * Mean

---------------------------------------------------------------------------
(* C4.  A competitor with a rating entry entering period p of a season and  *)
(* no match record in period p has, once period p is processed, exactly the *)
(* same rating entering the next period (the next distinct period of the    *)
(* season, or p + 1 after the last): as many rows, with the same values.    *)
C4_CarryForward ==
    \A s \in InputSeasons : \A p \in InputPeriods(s) : \A c \in Competitors :
        ( /\ RowsAt(c, s, p) # {}
          /\ ~Plays(c, s, p)
          /\ \E j \in 1..Len(dfelo) :
                dfelo[j].season = s /\ dfelo[j].matchup = NextPeriod(s, p) )
        => /\ EloAt(c, s, NextPeriod(s, p)) = EloAt(c, s, p)
           /\ \A e \in EloAt(c, s, p) :
                CountAt(c, s, NextPeriod(s, p), e) = CountAt(c, s, p, e)

\* a competitor that played in period 1, sat out period 3 while the two
\* others played it, and kept its rating (off the mean) into period 4
C4_Witness ==
    \E s \in InputSeasons : \E c \in Competitors :
        /\ InputPeriods(s) = {1, 3}
        /\ Plays(c, s, 1) /\ ~Plays(c, s, 3)
        /\ \E d \in Competitors : Plays(d, s, 3) /\ EloAt(d, s, 4) # EloAt(d, s, 3)
        /\ EloAt(c, s, 3) # {} /\ Mean \notin EloAt(c, s, 3)
        /\ EloAt(c, s, 4) = EloAt(c, s, 3)

---------------------------------------------------------------------------
(* C5.  The rating table holds at most one row per (competitor, season,     *)
(* period), also when a competitor has more than one match record in a     *)
(* period.  The joins of the code give such a competitor one row per match  *)
(* record, all stamped with the same next period.                           *)
C5_OneRowPerKey ==
    \A j, n \in 1..Len(dfelo) :
        ( /\ dfelo[j].id = dfelo[n].id
          /\ dfelo[j].season = dfelo[n].season
          /\ dfelo[j].matchup = dfelo[n].matchup ) => j = n

---------------------------------------------------------------------------
(* C6.  The rating table is append-only: every step of elo_history leaves   *)
(* the rows the table had where they were and as they were (competitor,     *)
(* season, period and rating), and only adds rows after them; the mean      *)
(* reversion of a season's start does not touch the previous season's rows. *)
C6_AppendOnly ==
    [][ /\ Len(dfelo') >= Len(dfelo)
        /\ \A j \in 1..Len(dfelo) : dfelo'[j] = dfelo[j] ]_vars

\* a season was opened by mean reversion from a closing rating off the mean,
\* and the closing row still holds the rating it closed with
C6_Witness ==
    /\ reversioncoef = ONE \div 2
    /\ \E j, n \in 1..Len(dfelo) :
         /\ j < n
         /\ dfelo[j].id = dfelo[n].id
         /\ dfelo[j].season < dfelo[n].season
         /\ dfelo[j].matchup = LastPeriod(dfelo[j].season) + 1
         /\ IsOpening(n)
         /\ dfelo[j].elo # Mean
         /\ dfelo[n].elo = Mean + MulFP(reversioncoef, dfelo[j].elo - Mean)
         /\ dfelo[n].elo # dfelo[j].elo

---------------------------------------------------------------------------
(* C7.  For every rating model and all finite r0, r1 with                   *)
(* expected_score(r0, r1, 'H') < 1, update_score(r0, r1, 1, deltapts > 0,   *)
(* 'H') returns a value strictly greater than r0, also when r0 is so far    *)
(* below r1 that elo_diff * a1 + a2 is zero or negative.  In the code the   *)
(* base model raises NameError (C1), and the multiplier of the MOV models   *)
(* is negative (the rating falls) or infinite there.                        *)
C7_WinRaisesRating ==
    ( /\ call = "update_score"
      /\ realizedscore = ONE /\ deltapts > 0 /\ han = "H"
      /\ expected_score(cfg, r0, r1, "H") < ONE )
    => (IsNum(ret) /\ ret.v > r0)

---------------------------------------------------------------------------
\* the sign the documentation gives han
DocSign(h) == CASE h = "H" -> 1 [] h = "A" -> -1 [] OTHER -> 0

IsValue(x) == x.t \in {"num", "inf", "-inf", "nan"}

(* C8, as claimed.  elo_diff returns (r0 - r1) + hfa for 'H', (r0 - r1) -   *)
(* hfa for 'A', (r0 - r1) for 'N', and fails with an invalid-argument error *)
(* for any other han; so do expected_score, update_score and point_spread.  *)
C8_RejectsUnknownHan ==
    /\ (call = "elo_diff" /\ han \in HAN)
          => ret = Num((r0 - r1) + DocSign(han) * cfg.hfa * ONE)
    /\ (call \in {"elo_diff", "expected_score", "update_score", "point_spread"}
          /\ han \notin HAN) => ret.t = "ValueError"

(* C8, as amended.  elo_diff returns (r0 - r1) + hfa for 'H', (r0 - r1) -   *)
(* hfa for 'A', and (r0 - r1) for 'N' and for every other value of han: no  *)
(* error is raised for a value outside {H, A, N}, it counts as neutral; and *)
(* expected_score, update_score and point_spread return for it what they    *)
(* return for 'N'.                                                          *)
C8_UnknownHanIsNeutral ==
    /\ call = "elo_diff"
          => ret = Num((r0 - r1) + DocSign(han) * cfg.hfa * ONE)
    /\ call = "point_spread"
          => ret = Num(DivT((r0 - r1) + DocSign(han) * cfg.hfa * ONE, spreadscale))
    /\ (call = "expected_score" /\ han \notin HAN)
          => ret = Num(expected_score(cfg, r0, r1, "N"))
    /\ (call = "update_score" /\ han \notin HAN)
          => ret = update_score(cfg, r0, r1, realizedscore, deltapts, "N")
    /\ (call \in {"elo_diff", "expected_score", "point_spread"}) => IsValue(ret)

\* elo_diff called with han = 'X' on a model with home-field advantage
\* returned the plain difference
C8_Witness ==
    /\ call = "elo_diff" /\ han = "X" /\ cfg.hfa # 0
    /\ ret = Num(r0 - r1)

---------------------------------------------------------------------------
(* C9.  elo_history called with reversioncoef < 0 or reversioncoef > 1      *)
(* fails (AssertionError) before anything is computed: no rating row is     *)
(* created, the table is not sorted, no season or period is processed and   *)
(* nothing is returned; with 0 <= reversioncoef <= 1, bounds included, the  *)
(* validation does not fail.                                                *)
C9_FailFast ==
    /\ (reversioncoef < 0 \/ reversioncoef > ONE)
          => /\ pc \in {"start", "error"}
             /\ pc = "error" => err = "AssertionError"
             /\ dfelo = <<>> /\ sidx = 0 /\ i = 0
             /\ \A j \in 1..Len(scoredf) : "wlt" \notin DOMAIN scoredf[j]
    /\ (0 <= reversioncoef /\ reversioncoef <= ONE) => err # "AssertionError"

\* the call ended on the assertion, with a coefficient above 1
C9_Witness ==
    /\ reversioncoef > ONE /\ scoredf # <<>>
    /\ pc = "error" /\ err = "AssertionError"

---------------------------------------------------------------------------
(* C10.  Seasons are processed in ascending order and the periods of a      *)
(* season in strictly ascending order (the step at position (sidx, i)       *)
(* processes the i-th smallest period of the sidx-th smallest season, and   *)
(* positions only advance); every row the update step of period p of        *)
(* season s produces is stamped with season s and with the next distinct    *)
(* period of s, gap or not, or with p + 1 when p is the last period.        *)
C10_NextPeriodStamp ==
    [][ pc = "period" =>
          LET s == NthSmallest(InputSeasons, sidx)
              p == NthSmallest(InputPeriods(s), i)
          IN  /\ season = s /\ matchup = p
              /\ pc' \notin {"error", "nonfinite"} =>
                   /\ Len(dfelo') > Len(dfelo)
                   /\ \A j \in (Len(dfelo) + 1)..Len(dfelo') :
                        /\ dfelo'[j].season = s
                        /\ dfelo'[j].matchup = NextPeriod(s, p)
                   /\ \/ pc' = "period" /\ sidx' = sidx /\ i' = i + 1
                      \/ /\ pc' \in {"season", "return"}
                         /\ i = Cardinality(InputPeriods(s))
                         /\ sidx' = IF pc' = "season" THEN sidx + 1 ELSE sidx
                         /\ pc' = "return" => sidx = Cardinality(InputSeasons) ]_vars

\* a season with periods 1 and 3: the update of period 1 stamped its rows 3,
\* the update of period 3 stamped its rows 4, and no row is stamped 2
C10_Witness ==
    \E s \in InputSeasons :
        /\ InputPeriods(s) = {1, 3}
        /\ \E c \in Competitors :
             /\ RowsAt(c, s, 3) # {} /\ RowsAt(c, s, 4) # {}
             /\ Plays(c, s, 1) /\ EloAt(c, s, 3) # EloAt(c, s, 1)
        /\ \A c \in Competitors : RowsAt(c, s, 2) = {}

---------------------------------------------------------------------------
\* a rating row stamped one past the last period of its season
IsClosing(r) ==
    r.season \in InputSeasons /\ r.matchup = LastPeriod(r.season) + 1

\* the positions of the closing rows of season t
ClosingOf(t) ==
    { j \in 1..Len(dfelo) : dfelo[j].season = t /\ IsClosing(dfelo[j]) }

\* the competitors with a match record in season t
CompetitorsOf(t) ==
    { scoredf[j].id : j \in { n \in 1..Len(scoredf) : scoredf[n].season = t } }

(* C11.  The entry stamped last period + 1 at the end of a season is never  *)
(* read as r0 or r1 by a match update of any season: the rows a period's    *)
(* update reads hold no such entry.  It is read only by the initialisation  *)
(* of the next season of the table, which reads the closing entries of the  *)
(* season before it and nothing else: one regressed rating per closing      *)
(* entry, and a closing entry for every competitor of that season.          *)
C11_ClosingReadOnlyByInit ==
    /\ pc = "period" =>
         LET read == thiselo_of(dfelo, season, matchup)
         IN  /\ read # <<>>
             /\ \A j \in 1..Len(read) : ~IsClosing(read[j])
    /\ (pc = "season" /\ dfelo # <<>>) =>
         LET t    == PreviousSeason(season)
             read == eloprev_of(dfelo, season, reversioncoef, elomean)
         IN  /\ Len(read) = Cardinality(ClosingOf(t))
             /\ \A j \in 1..Len(read) :
                  /\ read[j].season = t /\ IsClosing(read[j])
                  /\ \E n \in ClosingOf(t) :
                       /\ dfelo[n].id = read[j].id
                       /\ read[j].elo = Mean + MulFP(reversioncoef, dfelo[n].elo - Mean)
             /\ \A c \in CompetitorsOf(t) : \E n \in ClosingOf(t) : dfelo[n].id = c

\* a period of a later season is being updated: the table holds the closing
\* entries of the season before, off the mean, the season was opened from
\* them, and the rows the update reads are the season's own
C11_Witness ==
    /\ pc = "period" /\ sidx > 1 /\ reversioncoef = ONE \div 2
    /\ thiselo_of(dfelo, season, matchup) # <<>>
    /\ \E n \in ClosingOf(PreviousSeason(season)) :
         /\ dfelo[n].elo # Mean
         /\ \E j \in 1..Len(dfelo) :
              /\ dfelo[j].id = dfelo[n].id /\ dfelo[j].season = season
              /\ IsOpening(j)
              /\ dfelo[j].elo = Mean + MulFP(reversioncoef, dfelo[n].elo - Mean)

---------------------------------------------------------------------------
\* the period stamps the rating table holds for season s
StampsOf(s) == { dfelo[j].matchup : j \in { n \in 1..Len(dfelo) : dfelo[n].season = s } }

(* C12, as claimed.  A rating entry is created for a competitor only at     *)
(* season start (under the first period of a season it appears in) and at   *)
(* the end of a period in which it had a match: every row of the table is   *)
(* an opening row or is stamped with the period after one its competitor    *)
(* played in; for a period without a match no row is appended for it.       *)
C12_RowsOnlyWhenPlayed ==
    \A j \in 1..Len(dfelo) :
        \/ IsOpening(j)
        \/ \E p \in InputPeriods(dfelo[j].season) :
              /\ NextPeriod(dfelo[j].season, p) = dfelo[j].matchup
              /\ Plays(dfelo[j].id, dfelo[j].season, p)

(* C12, as amended.  A rating entry is created for a competitor at the      *)
(* start of each season it has a match record in (under the season's first  *)
(* period) and at the end of every period of that season, whether it had a  *)
(* match in the period or not: every row is an opening row or is stamped    *)
(* with the period after one its competitor had a row under, and under      *)
(* every stamp the table holds for a season every competitor of the season  *)
(* has a row; so a competitor without a match in period p gets a new row    *)
(* under the next period.                                                   *)
C12_RowEveryPeriod ==
    /\ \A j \in 1..Len(dfelo) :
         /\ dfelo[j].id \in CompetitorsOf(dfelo[j].season)
         /\ \/ IsOpening(j)
            \/ \E p \in InputPeriods(dfelo[j].season) :
                  /\ NextPeriod(dfelo[j].season, p) = dfelo[j].matchup
                  /\ RowsAt(dfelo[j].id, dfelo[j].season, p) # {}
    /\ \A s \in InputSeasons : \A q \in StampsOf(s) : \A c \in CompetitorsOf(s) :
         RowsAt(c, s, q) # {}
    /\ \A s \in InputSeasons : \A p \in InputPeriods(s) : \A c \in CompetitorsOf(s) :
         (~Plays(c, s, p) /\ NextPeriod(s, p) \in StampsOf(s))
            => /\ RowsAt(c, s, NextPeriod(s, p)) # {}
               /\ \A j \in RowsAt(c, s, NextPeriod(s, p)) :
                     \A n \in RowsAt(c, s, p) : n < j

\* a competitor without a match in period 1 of a season with periods 1 and 3
\* opened the season, got a new row under period 3 with the rating it opened
\* with, played in period 3 and got a row under period 4
C12_Witness ==
    \E s \in InputSeasons : \E c \in CompetitorsOf(s) :
        /\ InputPeriods(s) = {1, 3}
        /\ ~Plays(c, s, 1) /\ Plays(c, s, 3)
        /\ RowsAt(c, s, 1) # {} /\ RowsAt(c, s, 3) # {}
        /\ EloAt(c, s, 3) = EloAt(c, s, 1)
        /\ RowsAt(c, s, 4) # {} /\ EloAt(c, s, 4) # EloAt(c, s, 3)

===========================================================================
